---- MODULE Spec2Model ----
(***************************************************************************)
(* A model of nominatim/api/types.py: the place references PlaceID and     *)
(* OsmID, the Point value with its EWKB decoder and GeoJSON writer, the    *)
(* GeometryFormat flags and the LookupDetails parameter record.            *)
(*                                                                         *)
(* The module holds no collection of its own.  The state of the model is   *)
(* what a caller of the module holds: the objects it has constructed       *)
(* (heap), the flag value it is building (requested), the buffer the       *)
(* storage layer handed it (wkb) and the outcome of its latest call        *)
(* (call).                                                                 *)
(***************************************************************************)
EXTENDS Integers, Sequences, FiniteSets, TLC

VARIABLES heap, requested, wkb, call

vars == <<heap, requested, wkb, call>>

\* ------------------------------------------------------------------------
\* Bounds of the model
\* ------------------------------------------------------------------------

\* The caller holds at most this many objects at a time.
MaxObjects == 2

\* Numeric identifiers (place_id, osm_id) range over 1..MaxId.
MaxId == 2

\* Buffers handed to from_wkb are up to this many bytes shorter or longer
\* than the 25 bytes of an EWKB point.
MaxLenDelta == 1

\* ------------------------------------------------------------------------
\* Python values
\* ------------------------------------------------------------------------

\* Python's None.
None == [cls |-> "NoneType"]

\* Optional[str]: the empty tuple is None, a one-element tuple is the string.
NoCategory == <<>>

\* The outcome of a call: a value returned, or an exception raised.
Return(v) == [ok |-> TRUE, exc |-> "", msg |-> "", val |-> v]

Raise(exc, msg) == [ok |-> FALSE, exc |-> exc, msg |-> msg, val |-> None]

\* The caller's record of its latest call.
Called(op, args, outcome) ==
    [op |-> op, args |-> args, ok |-> outcome.ok, exc |-> outcome.exc,
     msg |-> outcome.msg, val |-> outcome.val]

\* ------------------------------------------------------------------------
\* PlaceID and OsmID
\* ------------------------------------------------------------------------

Ids == 1..MaxId

\* Strings a caller may pass as osm_type.
TypeInputs == {"N", "W", "R", "n", "w", "", "NW", "X", "node"}

\* Values a caller may pass as osm_class.
ClassInputs == {NoCategory, <<"amenity">>}

\* The dataclass-generated PlaceID.__init__.
PlaceID(place_id) == [cls |-> "PlaceID", place_id |-> place_id]

\* The dataclass-generated field assignments of OsmID.__init__.
OsmID_fields(osm_type, osm_id, osm_class) ==
    [cls |-> "OsmID", osm_type |-> osm_type, osm_id |-> osm_id,
     osm_class |-> osm_class]

\* OsmID.__post_init__ comparing without regard to case.
OsmID_post_init_anycase(self) ==
    IF self.osm_type \notin {"N", "W", "R", "n", "w", "r"}
    THEN Raise("ValueError",
               "Illegal OSM type '" \o self.osm_type
                   \o "'. Must be one of N, W, R.")
    ELSE Return(None)

\* OsmID.__post_init__: the check of osm_type.
OsmID_post_init(self) ==
    IF self.osm_type \notin {"N", "W", "R"}
    THEN Raise("ValueError",
               "Illegal OSM type '" \o self.osm_type
                   \o "'. Must be one of N, W, R.")
    ELSE Return(None)

\* OsmID(osm_type, osm_id, osm_class): __init__ sets the fields and then
\* runs __post_init__; an exception there leaves the caller without an
\* object.
OsmID(osm_type, osm_id, osm_class) ==
    LET self == OsmID_fields(osm_type, osm_id, osm_class)
        post == OsmID_post_init(self)
    IN  IF post.ok THEN Return(self) ELSE post

\* ------------------------------------------------------------------------
\* Floats
\* ------------------------------------------------------------------------

RECURSIVE Pow2(_)
Pow2(n) == IF n = 0 THEN 1 ELSE 2 * Pow2(n - 1)

\* A Python float is an IEEE-754 double: a sign bit, 11 exponent bits and 52
\* fraction bits, the fraction held as its top 20, middle 16 and low 16 bits.
Double(sign, exp, hi, mid, lo) ==
    [sign |-> sign, exp |-> exp, frac |-> <<hi, mid, lo>>]

\* sign, exponent and top fraction bits of a double whose lower 32 fraction
\* bits are zero.
Short(sign, exp, hi) == Double(sign, exp, hi, 0, 0)

PosZero == Short(0, 0, 0)
NegZero == Short(1, 0, 0)
Quarter == Short(0, 1021, 0)
One == Short(0, 1023, 0)
MinusThree == Short(1, 1024, 524288)
TwoAndHalf == Short(0, 1024, 262144)
Twenty == Short(0, 1027, 262144)
Thirty == Short(0, 1027, 917504)

\* Python's == on floats: the two zeros are equal, everything else (NaN is
\* not among the values of the model) is equal to itself alone.
IsZero(d) == d.exp = 0 /\ d.frac = <<0, 0, 0>>

FloatEq(a, b) == (IsZero(a) /\ IsZero(b)) \/ a = b

\* ------------------------------------------------------------------------
\* Point
\* ------------------------------------------------------------------------

\* The NamedTuple constructor.
Point(x, y) == [cls |-> "Point", x |-> x, y |-> y]

\* Tuple equality, as NamedTuple inherits it.
PointEq(p, q) == FloatEq(p.x, q.x) /\ FloatEq(p.y, q.y)

\* Point.lat
lat(self) == self.y

\* Point.lon
lon(self) == self.x

\* ------------------------------------------------------------------------
\* GeometryFormat
\* ------------------------------------------------------------------------

NONE == 0
GEOJSON == 1
KML == 2
SVG == 4
TEXT == 8

\* The named single flags, and the value with all of them set.
SingleFlags == {GEOJSON, KML, SVG, TEXT}

AllBits == GEOJSON + KML + SVG + TEXT

\* The values of the enumeration: every combination of the named flags.
GeometryFormat == 0..AllBits

\* Python's bitwise operators on the integer values of two flags.
RECURSIVE BitOp(_, _, _, _)
BitOp(op, a, b, bit) ==
    IF bit > AllBits THEN 0
    ELSE LET x == (a \div bit) % 2
             y == (b \div bit) % 2
             z == CASE op = "or" -> IF x + y > 0 THEN 1 ELSE 0
                    [] op = "and" -> x * y
                    [] op = "xor" -> (x + y) % 2
         IN  z * bit + BitOp(op, a, b, 2 * bit)

\* | computed as ^, and | computed as &.
Flag_or_as_xor(a, b) == BitOp("xor", a, b, 1)

Flag_or_as_and(a, b) == BitOp("and", a, b, 1)

\* Flag.__or__, Flag.__and__, Flag.__xor__ and Flag.__invert__, which
\* GeometryFormat inherits from enum.Flag.
Flag_or(a, b) == BitOp("or", a, b, 1)

Flag_and(a, b) == BitOp("and", a, b, 1)

Flag_xor(a, b) == BitOp("xor", a, b, 1)

Flag_invert(a) == BitOp("xor", a, AllBits, 1)

\* Flag.__contains__: `flag in value`.
Flag_contains(value, flag) == BitOp("and", value, flag, 1) = flag

\* ------------------------------------------------------------------------
\* LookupDetails
\* ------------------------------------------------------------------------

BoolFields == {"address_details", "linked_places", "parented_places", "keywords"}

DetailFields == {"geometry_output"} \cup BoolFields

\* The keyword argument `name` of a call, or the parameter's default.
Arg(kwargs, name, default) ==
    IF name \in DOMAIN kwargs THEN kwargs[name] ELSE default

\* LookupDetails.__init__ with the parameters linked_places and
\* parented_places stored in each other's field.
LookupDetails_crossed(kwargs) ==
    [cls |-> "LookupDetails",
     geometry_output |-> Arg(kwargs, "geometry_output", NONE),
     address_details |-> Arg(kwargs, "address_details", FALSE),
     linked_places |-> Arg(kwargs, "parented_places", FALSE),
     parented_places |-> Arg(kwargs, "linked_places", FALSE),
     keywords |-> Arg(kwargs, "keywords", FALSE)]

\* The dataclass-generated LookupDetails.__init__, with the defaults of the
\* class body.
LookupDetails(kwargs) ==
    [cls |-> "LookupDetails",
     geometry_output |-> Arg(kwargs, "geometry_output", NONE),
     address_details |-> Arg(kwargs, "address_details", FALSE),
     linked_places |-> Arg(kwargs, "linked_places", FALSE),
     parented_places |-> Arg(kwargs, "parented_places", FALSE),
     keywords |-> Arg(kwargs, "keywords", FALSE)]

\* ------------------------------------------------------------------------
\* struct.unpack and struct.pack for the formats '>iidd' and '<iidd'
\* ------------------------------------------------------------------------

Reverse(s) == [k \in 1..Len(s) |-> s[Len(s) + 1 - k]]

\* 'i': four bytes, most significant first, as a signed 32-bit integer.
Int32(b) ==
    (IF b[1] >= 128 THEN b[1] - 256 ELSE b[1]) * 16777216
        + b[2] * 65536 + b[3] * 256 + b[4]

\* 'd': eight bytes, most significant first, as a double.
Float64(b) ==
    Double(b[1] \div 128,
           (b[1] % 128) * 16 + (b[2] \div 16),
           (b[2] % 16) * 65536 + b[3] * 256 + b[4],
           b[5] * 256 + b[6],
           b[7] * 256 + b[8])

\* The bytes of one field in the order the format reads them.
Field(order, data, first, last) ==
    IF order = ">" THEN SubSeq(data, first, last)
    ELSE Reverse(SubSeq(data, first, last))

\* unpack(order + 'iidd', data) for 24 bytes of data.
unpack(order, data) ==
    [gtype |-> Int32(Field(order, data, 1, 4)),
     srid |-> Int32(Field(order, data, 5, 8)),
     x |-> Float64(Field(order, data, 9, 16)),
     y |-> Float64(Field(order, data, 17, 24))]

\* The four bytes of a signed 32-bit integer, most significant first.
Int32Bytes(v) ==
    <<(v \div 16777216) % 256, (v \div 65536) % 256, (v \div 256) % 256, v % 256>>

\* The eight bytes of a double, most significant first.
Float64Bytes(d) ==
    <<d.sign * 128 + (d.exp \div 16),
      (d.exp % 16) * 16 + (d.frac[1] \div 65536),
      (d.frac[1] \div 256) % 256, d.frac[1] % 256,
      d.frac[2] \div 256, d.frac[2] % 256,
      d.frac[3] \div 256, d.frac[3] % 256>>

Ordered(order, bytes) == IF order = ">" THEN bytes ELSE Reverse(bytes)

\* bytes([marker]) + pack(order + 'iidd', gtype, srid, x, y): what the
\* storage layer writes for a point.
Ewkb(marker, order, gtype, srid, x, y) ==
    <<marker>> \o Ordered(order, Int32Bytes(gtype))
               \o Ordered(order, Int32Bytes(srid))
               \o Ordered(order, Float64Bytes(x))
               \o Ordered(order, Float64Bytes(y))

\* ------------------------------------------------------------------------
\* Point.from_wkb
\* ------------------------------------------------------------------------

WkbLength == 25
PointWithSrid == 536870913
Wgs84 == 4326

\* from_wkb without the check of the SRID.
from_wkb_any_srid(data) ==
    IF Len(data) # WkbLength
    THEN Raise("ValueError", "Point wkb has unexpected length")
    ELSE IF data[1] \notin {0, 1}
    THEN Raise("ValueError", "WKB has unknown endian value.")
    ELSE LET f == unpack(IF data[1] = 0 THEN ">" ELSE "<", Tail(data))
         IN  IF f.gtype # PointWithSrid
             THEN Raise("ValueError", "WKB must be a point geometry.")
             ELSE Return(Point(f.x, f.y))

\* from_wkb refusing only buffers that are too short.
from_wkb_at_least(data) ==
    IF Len(data) < WkbLength
    THEN Raise("ValueError", "Point wkb has unexpected length")
    ELSE IF data[1] \notin {0, 1}
    THEN Raise("ValueError", "WKB has unknown endian value.")
    ELSE LET f == unpack(IF data[1] = 0 THEN ">" ELSE "<", Tail(data))
         IN  IF f.gtype # PointWithSrid
             THEN Raise("ValueError", "WKB must be a point geometry.")
             ELSE IF f.srid # Wgs84
             THEN Raise("ValueError", "Only WGS84 WKB supported.")
             ELSE Return(Point(f.x, f.y))

\* from_wkb building the point from y and x, in that order.
from_wkb_yx(data) ==
    IF Len(data) # WkbLength
    THEN Raise("ValueError", "Point wkb has unexpected length")
    ELSE IF data[1] \notin {0, 1}
    THEN Raise("ValueError", "WKB has unknown endian value.")
    ELSE LET f == unpack(IF data[1] = 0 THEN ">" ELSE "<", Tail(data))
         IN  IF f.gtype # PointWithSrid
             THEN Raise("ValueError", "WKB must be a point geometry.")
             ELSE IF f.srid # Wgs84
             THEN Raise("ValueError", "Only WGS84 WKB supported.")
             ELSE Return(Point(f.y, f.x))

\* from_wkb checking the SRID before the geometry type.
from_wkb_srid_first(data) ==
    IF Len(data) # WkbLength
    THEN Raise("ValueError", "Point wkb has unexpected length")
    ELSE IF data[1] \notin {0, 1}
    THEN Raise("ValueError", "WKB has unknown endian value.")
    ELSE LET f == unpack(IF data[1] = 0 THEN ">" ELSE "<", Tail(data))
         IN  IF f.srid # Wgs84
             THEN Raise("ValueError", "Only WGS84 WKB supported.")
             ELSE IF f.gtype # PointWithSrid
             THEN Raise("ValueError", "WKB must be a point geometry.")
             ELSE Return(Point(f.x, f.y))

from_wkb(data) ==
    IF Len(data) # WkbLength
    THEN Raise("ValueError", "Point wkb has unexpected length")
    ELSE IF data[1] \notin {0, 1}
    THEN Raise("ValueError", "WKB has unknown endian value.")
    ELSE LET f == unpack(IF data[1] = 0 THEN ">" ELSE "<", Tail(data))
         IN  IF f.gtype # PointWithSrid
             THEN Raise("ValueError", "WKB must be a point geometry.")
             ELSE IF f.srid # Wgs84
             THEN Raise("ValueError", "Only WGS84 WKB supported.")
             ELSE Return(Point(f.x, f.y))

\* ------------------------------------------------------------------------
\* Point.to_geojson
\* ------------------------------------------------------------------------

Digit == <<"0", "1", "2", "3", "4", "5", "6", "7", "8", "9">>

RECURSIVE IntStr(_)
IntStr(n) == IF n < 10 THEN Digit[n + 1] ELSE IntStr(n \div 10) \o Digit[(n % 10) + 1]

\* The doubles whose text the model writes: the two zeros and the multiples
\* of 0.25 of magnitude in [0.25, 1024), exponents 1021 to 1032.
Renderable(d) ==
    \/ IsZero(d)
    \/ /\ d.exp \in 1021..1032
       /\ d.frac[2] = 0
       /\ d.frac[3] = 0
       /\ (d.exp < 1041 => d.frac[1] % Pow2(1041 - d.exp) = 0)

\* The magnitude of a renderable double in quarters: (1 + frac / 2^52) *
\* 2^(exp - 1023) * 4, with the lower 32 fraction bits zero.
Quarters(d) ==
    IF IsZero(d) THEN 0
    ELSE (1048576 + d.frac[1]) \div Pow2(1041 - d.exp)

\* repr() of a float, which the f-string applies to x and y.
float_repr(d) ==
    (IF d.sign = 1 THEN "-" ELSE "")
        \o IntStr(Quarters(d) \div 4) \o "."
        \o (CASE Quarters(d) % 4 = 0 -> "0"
              [] Quarters(d) % 4 = 1 -> "25"
              [] Quarters(d) % 4 = 2 -> "5"
              [] Quarters(d) % 4 = 3 -> "75")

\* to_geojson writing y before x.
to_geojson_yx(self) ==
    "{\"type\": \"Point\",\"coordinates\": [" \o float_repr(self.y) \o ", "
        \o float_repr(self.x) \o "]}"

to_geojson(self) ==
    "{\"type\": \"Point\",\"coordinates\": [" \o float_repr(self.x) \o ", "
        \o float_repr(self.y) \o "]}"

\* ------------------------------------------------------------------------
\* The caller's operations on objects
\* ------------------------------------------------------------------------

\* Coordinates and geometry selections a caller passes to the constructors.
PointInputs == {One, MinusThree}

GeometryInputs == {NONE, GEOJSON + KML}

\* The fields of the dataclasses and the values a caller may assign to them.
FieldsOf(cls) ==
    CASE cls = "PlaceID" -> {"place_id"}
      [] cls = "OsmID" -> {"osm_type", "osm_id", "osm_class"}
      [] cls = "LookupDetails" -> DetailFields
      [] cls = "Point" -> {"x", "y"}

AssignableTo(field) ==
    CASE field \in {"place_id", "osm_id"} -> Ids
      [] field = "osm_type" -> {"W", "X", ""}
      [] field = "osm_class" -> ClassInputs
      [] field = "geometry_output" -> {GEOJSON + KML}
      [] field \in BoolFields -> {TRUE}
      [] field \in {"x", "y"} -> PointInputs

IsDataclass(obj) == obj.cls \in {"PlaceID", "OsmID", "LookupDetails"}

\* The caller keeps the object a successful constructor returned.
Keep(outcome) == IF outcome.ok THEN Append(heap, outcome.val) ELSE heap

\* ref = PlaceID(place_id)
NewPlaceID ==
    \E place_id \in Ids :
        /\ Len(heap) < MaxObjects
        /\ LET outcome == Return(PlaceID(place_id))
           IN  /\ heap' = Keep(outcome)
               /\ call' = Called("PlaceID", <<place_id>>, outcome)
        /\ UNCHANGED <<requested, wkb>>

\* ref = OsmID(osm_type, osm_id, osm_class)
NewOsmID ==
    \E osm_type \in TypeInputs, osm_id \in Ids, osm_class \in ClassInputs :
        /\ Len(heap) < MaxObjects
        /\ LET outcome == OsmID(osm_type, osm_id, osm_class)
           IN  /\ heap' = Keep(outcome)
               /\ call' = Called("OsmID", <<osm_type, osm_id, osm_class>>, outcome)
        /\ UNCHANGED <<requested, wkb>>

\* point = Point(x, y)
NewPoint ==
    \E x \in PointInputs, y \in PointInputs :
        /\ Len(heap) < MaxObjects
        /\ LET outcome == Return(Point(x, y))
           IN  /\ heap' = Keep(outcome)
               /\ call' = Called("Point", <<x, y>>, outcome)
        /\ UNCHANGED <<requested, wkb>>

\* The keyword arguments a caller may pass to LookupDetails: any of the
\* fields, each with any of its values.
KwargsInputs ==
    {[f \in supplied |-> IF f = "geometry_output" THEN g ELSE b[f]] :
        supplied \in SUBSET DetailFields, g \in GeometryInputs,
        b \in [BoolFields -> BOOLEAN]}

\* details = LookupDetails(**kwargs)
NewLookupDetails ==
    \E kwargs \in KwargsInputs :
        /\ Len(heap) < MaxObjects
        /\ LET outcome == Return(LookupDetails(kwargs))
           IN  /\ heap' = Keep(outcome)
               /\ call' = Called("LookupDetails", kwargs, outcome)
        /\ UNCHANGED <<requested, wkb>>

\* obj.field = value on a dataclass instance: the classes are declared with a
\* plain @dataclasses.dataclass, so the assignment stores the value, and
\* __post_init__ does not run again.
DataclassSetattr(obj, field, value) == [obj EXCEPT ![field] = value]

SetAttr ==
    \E i \in 1..Len(heap) :
        /\ IsDataclass(heap[i])
        /\ \E field \in FieldsOf(heap[i].cls) :
             \E value \in AssignableTo(field) :
                /\ heap' = [heap EXCEPT ![i] = DataclassSetattr(heap[i], field, value)]
                /\ call' = Called("setattr", <<i, field, value>>, Return(None))
        /\ UNCHANGED <<requested, wkb>>

\* point.x = value on a Point: a NamedTuple's fields are read-only.
SetAttrPoint ==
    \E i \in 1..Len(heap) :
        /\ heap[i].cls = "Point"
        /\ \E field \in FieldsOf("Point") :
             \E value \in AssignableTo(field) :
                call' = Called("setattr", <<i, field, value>>,
                               Raise("AttributeError", "can't set attribute"))
        /\ UNCHANGED <<heap, requested, wkb>>

NoCall == Called("", <<>>, Return(None))

Init ==
    /\ heap = <<>>
    /\ requested = NONE
    /\ wkb = <<>>
    /\ call = NoCall

Next ==
    \/ NewPlaceID
    \/ NewOsmID
    \/ NewPoint
    \/ SetAttr
    \/ SetAttrPoint

\* A caller that builds place references and points.
Spec == Init /\ [][Next]_vars

NextDetails ==
    \/ NewLookupDetails
    \/ SetAttr

\* A caller that builds LookupDetails.
SpecDetails == Init /\ [][NextDetails]_vars

\* ------------------------------------------------------------------------
\* Decoding and writing points
\* ------------------------------------------------------------------------

Tenth == Double(0, 1019, 629145, 39321, 39322)

\* What the storage layer may hand over: a marker byte, then a geometry type,
\* an SRID and two coordinates written in either byte order, the whole cut
\* short or padded by up to MaxLenDelta bytes; and the empty buffer.
Markers == {0, 1, 2, 255}

GTypes == {PointWithSrid, 1, 536870914, -1610612735}

Srids == {Wgs84, 3857, 0}

Coordinates ==
    {PosZero, NegZero, Quarter, One, MinusThree, TwoAndHalf, Twenty, Thirty, Tenth}

Padding(k) == [i \in 1..k |-> 0]

FullBuffers ==
    {Ewkb(marker, order, gtype, srid, x, y) :
        marker \in Markers, order \in {">", "<"}, gtype \in GTypes,
        srid \in Srids, x \in Coordinates, y \in Coordinates}

WkbInputs ==
    FullBuffers
        \cup {SubSeq(b, 1, WkbLength - k) : b \in FullBuffers, k \in 1..MaxLenDelta}
        \cup {b \o Padding(k) : b \in FullBuffers, k \in 1..MaxLenDelta}
        \cup {<<>>}

\* point = Point.from_wkb(wkb)
FromWkb ==
    /\ call.op = ""
    /\ Len(heap) < MaxObjects
    /\ LET outcome == from_wkb(wkb)
       IN  /\ heap' = Keep(outcome)
           /\ call' = Called("from_wkb", <<wkb>>, outcome)
    /\ UNCHANGED <<requested, wkb>>

\* point.to_geojson()
ToGeojson ==
    \E i \in 1..Len(heap) :
        /\ heap[i].cls = "Point"
        /\ Renderable(heap[i].x)
        /\ Renderable(heap[i].y)
        /\ call' = Called("to_geojson", <<heap[i]>>, Return(to_geojson(heap[i])))
        /\ UNCHANGED <<heap, requested, wkb>>

\* point.lat
Lat ==
    \E i \in 1..Len(heap) :
        /\ heap[i].cls = "Point"
        /\ call' = Called("lat", <<heap[i]>>, Return(lat(heap[i])))
        /\ UNCHANGED <<heap, requested, wkb>>

\* point.lon
Lon ==
    \E i \in 1..Len(heap) :
        /\ heap[i].cls = "Point"
        /\ call' = Called("lon", <<heap[i]>>, Return(lon(heap[i])))
        /\ UNCHANGED <<heap, requested, wkb>>

InitWkb ==
    /\ heap = <<>>
    /\ requested = NONE
    /\ wkb \in WkbInputs
    /\ call = NoCall

NextWkb ==
    \/ FromWkb
    \/ ToGeojson
    \/ Lat
    \/ Lon

\* A caller that decodes the buffer it was handed and reads the point.
SpecWkb == InitWkb /\ [][NextWkb]_vars

\* ------------------------------------------------------------------------
\* Building a GeometryFormat value
\* ------------------------------------------------------------------------

\* requested = requested | other
FlagOr ==
    \E other \in GeometryFormat :
        /\ requested' = Flag_or(requested, other)
        /\ call' = Called("or", <<requested, other>>, Return(requested'))
        /\ UNCHANGED <<heap, wkb>>

\* requested = requested & other
FlagAnd ==
    \E other \in GeometryFormat :
        /\ requested' = Flag_and(requested, other)
        /\ call' = Called("and", <<requested, other>>, Return(requested'))
        /\ UNCHANGED <<heap, wkb>>

\* requested = requested ^ other
FlagXor ==
    \E other \in GeometryFormat :
        /\ requested' = Flag_xor(requested, other)
        /\ call' = Called("xor", <<requested, other>>, Return(requested'))
        /\ UNCHANGED <<heap, wkb>>

\* requested = ~requested
FlagInvert ==
    /\ requested' = Flag_invert(requested)
    /\ call' = Called("invert", <<requested>>, Return(requested'))
    /\ UNCHANGED <<heap, wkb>>

NextFlag ==
    \/ FlagOr
    \/ FlagAnd
    \/ FlagXor
    \/ FlagInvert

\* A caller that combines flags.
SpecFlag == Init /\ [][NextFlag]_vars

\* ========================================================================
\* Properties
\* ========================================================================

ValidOsmTypes == {"N", "W", "R"}

\* C1: OsmID(osm_type, osm_id, osm_class) succeeds exactly when osm_type is
\* one of "N", "W", "R", whatever osm_id and osm_class are.  On success the
\* caller holds one more object, an OsmID with the three values given.  On
\* failure a ValueError is raised from the constructor, its message quotes
\* the illegal osm_type, nothing is returned and the caller's objects are as
\* before.
C1_OsmIdConstruction ==
    [][call'.op = "OsmID" =>
        LET osm_type == call'.args[1]
            made == [cls |-> "OsmID", osm_type |-> osm_type,
                     osm_id |-> call'.args[2], osm_class |-> call'.args[3]]
        IN  /\ call'.ok <=> osm_type \in ValidOsmTypes
            /\ call'.ok => /\ call'.val = made
                           /\ heap' = Append(heap, made)
            /\ ~call'.ok =>
                 /\ call'.exc = "ValueError"
                 /\ call'.msg = "Illegal OSM type '" \o osm_type
                                    \o "'. Must be one of N, W, R."
                 /\ call'.val = None
                 /\ heap' = heap]_vars

\* A caller holding an OsmID has just had OsmID("n", ...) refused.
C1_Witness ==
    /\ call.op = "OsmID"
    /\ call.args[1] = "n"
    /\ ~call.ok
    /\ Len(heap) = 1
    /\ heap[1].cls = "OsmID"

\* C5 (as claimed): the objects are immutable, so every OsmID the caller
\* holds has an osm_type among "N", "W", "R", whatever constructions and
\* field assignments came before.
C5_OsmTypeStaysValid ==
    \A i \in 1..Len(heap) :
        heap[i].cls = "OsmID" => heap[i].osm_type \in ValidOsmTypes

DetailDefault(field) == IF field = "geometry_output" THEN NONE ELSE FALSE

\* C8: LookupDetails(**kwargs) never raises; in the object it returns every
\* field passed holds the value passed and every field not passed holds
\* its default (NONE for geometry_output, False for the four booleans),
\* whatever the other fields hold; with no argument all five fields hold
\* their defaults.
C8_LookupDetailsFields ==
    call.op = "LookupDetails" =>
        /\ call.ok
        /\ Len(heap) >= 1
        /\ heap[Len(heap)] = call.val
        /\ call.val.cls = "LookupDetails"
        /\ \A field \in DetailFields :
              call.val[field] = IF field \in DOMAIN call.args
                                THEN call.args[field]
                                ELSE DetailDefault(field)
        /\ DOMAIN call.args = {} =>
              /\ call.val.geometry_output = 0
              /\ ~call.val.address_details
              /\ ~call.val.linked_places
              /\ ~call.val.parented_places
              /\ ~call.val.keywords

\* LookupDetails(geometry_output=GEOJSON|KML, linked_places=True) was called.
C8_Witness ==
    /\ call.op = "LookupDetails"
    /\ DOMAIN call.args = {"geometry_output", "linked_places"}
    /\ call.args["geometry_output"] = GEOJSON + KML
    /\ call.args["linked_places"]
    /\ ~call.val.parented_places

\* The bytes 0x20000001 and 4326 take in a buffer, in the byte order its
\* marker selects.
TypeCodeIsPoint(b) ==
    SubSeq(b, 2, 5) = (IF b[1] = 0 THEN <<32, 0, 0, 1>> ELSE <<1, 0, 0, 32>>)

SridIsWgs84(b) ==
    SubSeq(b, 6, 9) = (IF b[1] = 0 THEN <<0, 0, 16, 230>> ELSE <<230, 16, 0, 0>>)

WellMarked(b) == Len(b) = WkbLength /\ b[1] \in {0, 1}

\* C2: on a 25-byte buffer starting with 0 or 1, from_wkb returns a Point
\* exactly when the type code read in the marker's byte order is 0x20000001
\* and the SRID is 4326; otherwise it raises ValueError and the caller gets
\* no point.
C2_TypeAndSridDecide ==
    (call.op = "from_wkb" /\ WellMarked(wkb)) =>
        /\ call.ok <=> (TypeCodeIsPoint(wkb) /\ SridIsWgs84(wkb))
        /\ call.ok => call.val.cls = "Point" /\ heap = <<call.val>>
        /\ ~call.ok => call.exc = "ValueError" /\ call.val = None /\ heap = <<>>

\* A little-endian buffer with type code 1 and SRID 4326 was refused.
C2_Witness ==
    /\ call.op = "from_wkb"
    /\ wkb = Ewkb(1, "<", 1, Wgs84, One, MinusThree)
    /\ ~call.ok

\* C3: from_wkb raises ValueError on every buffer that is not 25 bytes long
\* and on every 25-byte buffer whose first byte is neither 0 nor 1, whatever
\* the other bytes are; the caller gets no point.
C3_LengthAndMarker ==
    (call.op = "from_wkb" /\ ~WellMarked(wkb)) =>
        /\ ~call.ok
        /\ call.exc = "ValueError"
        /\ call.val = None
        /\ heap = <<>>

\* A big-endian WGS84 point followed by one more byte was refused.
C3_Witness ==
    /\ call.op = "from_wkb"
    /\ wkb = Ewkb(0, ">", PointWithSrid, Wgs84, One, MinusThree) \o <<0>>
    /\ ~call.ok

\* The two buffers of every coordinate pair: marker 0 with everything
\* big-endian, marker 1 with everything little-endian.
EncodedPoints ==
    {[buf |-> Ewkb(IF order = ">" THEN 0 ELSE 1, order, PointWithSrid, Wgs84, x, y),
      x |-> x, y |-> y] :
        order \in {">", "<"}, x \in Coordinates, y \in Coordinates}

\* C4: for all coordinates x and y, the big-endian buffer with marker 0 and
\* the little-endian buffer with marker 1 that hold 0x20000001, 4326, x, y
\* both decode to Point(x, y): x is its longitude and y its latitude.
C4_ByteOrderIndependent ==
    call.op = "from_wkb" =>
        \A e \in EncodedPoints :
            wkb = e.buf => /\ call.ok
                           /\ call.val = Point(e.x, e.y)
                           /\ lon(call.val) = e.x
                           /\ lat(call.val) = e.y

\* The little-endian buffer of (1.0, -3.0) was decoded.
C4_Witness ==
    /\ call.op = "from_wkb"
    /\ wkb = Ewkb(1, "<", PointWithSrid, Wgs84, One, MinusThree)
    /\ call.val = Point(One, MinusThree)

\* What Python writes for the renderable coordinates of the model.
TextOf(d) ==
    CASE d = PosZero -> "0.0"
      [] d = NegZero -> "-0.0"
      [] d = Quarter -> "0.25"
      [] d = One -> "1.0"
      [] d = MinusThree -> "-3.0"
      [] d = TwoAndHalf -> "2.5"
      [] d = Twenty -> "20.0"
      [] d = Thirty -> "30.0"

GeojsonText(p) ==
    "{\"type\": \"Point\",\"coordinates\": [" \o TextOf(p.x) \o ", "
        \o TextOf(p.y) \o "]}"

RenderablePoints ==
    {Point(x, y) : x \in {d \in Coordinates : Renderable(d)},
                   y \in {d \in Coordinates : Renderable(d)}}

\* C9 (as claimed): to_geojson returns {"type": "Point","coordinates": [X, Y]}
\* with X the text of x and Y the text of y, and every point equal to the
\* one it was called on gets the same text.
C9_EqualPointsSameText ==
    call.op = "to_geojson" =>
        /\ call.val = GeojsonText(call.args[1])
        /\ \A q \in RenderablePoints :
              PointEq(q, call.args[1]) => to_geojson(q) = call.val

\* C9 (amended): to_geojson returns {"type": "Point","coordinates": [X, Y]}
\* with X the text of x and Y the text of y and nothing else, and every
\* point with the same two doubles, the sign of a zero included, gets the
\* same text.
C9_GeojsonText ==
    call.op = "to_geojson" =>
        /\ call.val = GeojsonText(call.args[1])
        /\ call.args[1] = Point(One, MinusThree) =>
              call.val = "{\"type\": \"Point\",\"coordinates\": [1.0, -3.0]}"
        /\ \A q \in RenderablePoints :
              (PointEq(q, call.args[1]) /\ q.x.sign = call.args[1].x.sign
                                        /\ q.y.sign = call.args[1].y.sign)
                  => to_geojson(q) = call.val

\* to_geojson was called on the decoded point (1.0, -3.0).
C9_Witness ==
    /\ call.op = "to_geojson"
    /\ call.args[1] = Point(One, MinusThree)
    /\ Len(heap) = 1

\* C10: from_wkb reports the first check that fails, in the order length,
\* marker, geometry type, SRID.
C10_FirstViolationReported ==
    call.op = "from_wkb" =>
        call.msg = (CASE Len(wkb) # WkbLength -> "Point wkb has unexpected length"
                      [] WellMarked(wkb) /\ ~TypeCodeIsPoint(wkb) ->
                            "WKB must be a point geometry."
                      [] WellMarked(wkb) /\ TypeCodeIsPoint(wkb) /\ ~SridIsWgs84(wkb) ->
                            "Only WGS84 WKB supported."
                      [] WellMarked(wkb) /\ TypeCodeIsPoint(wkb) /\ SridIsWgs84(wkb) ->
                            ""
                      [] OTHER -> "WKB has unknown endian value.")

\* A buffer with type code 1 and SRID 3857 was refused.
C10_Witness ==
    /\ call.op = "from_wkb"
    /\ wkb = Ewkb(0, ">", 1, 3857, One, MinusThree)
    /\ call.msg = "WKB must be a point geometry."

\* Whether the value v has the bit of the single flag f set.
Has(v, f) == (v \div f) % 2 = 1

FlagsOf(v) == {f \in SingleFlags : Has(v, f)}

\* C6: a | b holds a named flag exactly when a or b holds it, NONE | a = a,
\* a | a = a and (a | b) | c = a | (b | c); GEOJSON, KML, SVG and TEXT are
\* four different flags, NONE holds none of them, and the sixteen sets of
\* flags are sixteen different values.
C6_UnionSemantics ==
    /\ requested \in GeometryFormat
    /\ Cardinality(SingleFlags) = 4
    /\ FlagsOf(NONE) = {}
    /\ \A f \in SingleFlags : FlagsOf(f) = {f}
    /\ {FlagsOf(v) : v \in GeometryFormat} = SUBSET SingleFlags
    /\ \A v \in GeometryFormat, w \in GeometryFormat : FlagsOf(v) = FlagsOf(w) => v = w
    /\ call.op = "or" =>
          LET a == call.args[1]
              b == call.args[2]
          IN  /\ requested = call.val
              /\ FlagsOf(call.val) = FlagsOf(a) \cup FlagsOf(b)
              /\ \A f \in SingleFlags : Flag_contains(call.val, f) <=> f \in FlagsOf(call.val)
              /\ a = NONE => call.val = b
              /\ b = NONE => call.val = a
              /\ a = b => call.val = a
              /\ \A c \in GeometryFormat :
                    Flag_or(call.val, c) = Flag_or(a, Flag_or(b, c))
              /\ (a = GEOJSON /\ b = KML) =>
                    FlagsOf(call.val) = {GEOJSON, KML}

\* GEOJSON | KML was computed.
C6_Witness ==
    /\ call.op = "or"
    /\ call.args = <<GEOJSON, KML>>
    /\ requested = GEOJSON + KML

\* C7 (as claimed): no step of the caller takes a flag out of the value it
\* is building.
C7_NoFlagRemoved ==
    [][FlagsOf(requested) \subseteq FlagsOf(requested')]_vars

\* C7 (amended): a step that combines with | takes no flag out of the value;
\* the operators &, ^ and ~ that GeometryFormat has as an enum.Flag can.
C7_OrKeepsFlags ==
    [][call'.op = "or" =>
          /\ FlagsOf(requested) \subseteq FlagsOf(requested')
          /\ FlagsOf(call'.args[2]) \subseteq FlagsOf(requested')]_vars

\* SVG | TEXT was combined into a value that held GEOJSON and KML.
C7_Witness ==
    /\ call.op = "or"
    /\ call.args = <<GEOJSON + KML, SVG + TEXT>>
    /\ requested = AllBits

====
